---------------------------- MODULE Spec2Model ----------------------------
(***************************************************************************)
(* Patient Record Management System (src/hprs.py): the CSV-backed record   *)
(* store and the handlers of class PatientRecordSystem.                    *)
(*                                                                         *)
(* Text is a sequence of one-character strings, so that str.strip,         *)
(* str.lower, str.replace, int() and the substring test are computed as    *)
(* Python computes them.  The backing file is the sequence of rows that    *)
(* csv.reader yields for it (row 1 is the header); csv.writer followed by  *)
(* csv.reader returns the fields it was given, and every row written here  *)
(* has ten fields.  `Absent` is the file that does not exist.              *)
(***************************************************************************)
EXTENDS Integers, Sequences, FiniteSets, TLC

\* Most data rows the backing file may hold (add_record is capped there).
MaxRecords == 3

----------------------------------------------------------------------------
(* Python text primitives                                                  *)

Whitespace == {" "}

UpperCase == <<"A","B","C","D","E","F","G","H","I","J","K","L","M","N","O","P","Q","R","S","T","U","V","W","X","Y","Z">>
LowerCase == <<"a","b","c","d","e","f","g","h","i","j","k","l","m","n","o","p","q","r","s","t","u","v","w","x","y","z">>
Digits == <<"0","1","2","3","4","5","6","7","8","9">>

IsDigit(c) == \E i \in 1..Len(Digits) : Digits[i] = c

DigitVal(c) == (CHOOSE i \in 1..Len(Digits) : Digits[i] = c) - 1

\* str.lower on one character
LowerChar(c) ==
    IF \E i \in 1..Len(UpperCase) : UpperCase[i] = c
    THEN LowerCase[CHOOSE i \in 1..Len(UpperCase) : UpperCase[i] = c]
    ELSE c

\* str.lower
lower(s) == IF s = <<>> THEN <<>> ELSE [i \in 1..Len(s) |-> LowerChar(s[i])]

\* str.replace(old, new) for one-character old and new
replace(s, old, new) ==
    IF s = <<>> THEN <<>> ELSE [i \in 1..Len(s) |-> IF s[i] = old THEN new ELSE s[i]]

RECURSIVE lstrip(_)
lstrip(s) == IF s # <<>> /\ Head(s) \in Whitespace THEN lstrip(Tail(s)) ELSE s

RECURSIVE rstrip(_)
rstrip(s) ==
    IF s # <<>> /\ s[Len(s)] \in Whitespace THEN rstrip(SubSeq(s, 1, Len(s) - 1)) ELSE s

\* str.strip
strip(s) == rstrip(lstrip(s))

\* `t in s` for strings
contains(s, t) ==
    \E i \in 0..(Len(s) - Len(t)) : SubSeq(s, i + 1, i + Len(t)) = t

\* The digits of an int() literal once the sign is removed: digits, with
\* single underscores allowed between them.
IsDigitString(b) ==
    /\ b # <<>>
    /\ IsDigit(b[1])
    /\ IsDigit(b[Len(b)])
    /\ \A i \in 1..Len(b) : IsDigit(b[i]) \/ b[i] = "_"
    /\ \A i \in 1..(Len(b) - 1) : ~(b[i] = "_" /\ b[i + 1] = "_")

Unsigned(t) == IF t # <<>> /\ t[1] \in {"+", "-"} THEN Tail(t) ELSE t

\* int(s) does not raise ValueError
int_ok(s) == IsDigitString(Unsigned(strip(s)))

RECURSIVE DigitsValue(_, _)
DigitsValue(b, acc) ==
    IF b = <<>> THEN acc
    ELSE IF Head(b) = "_" THEN DigitsValue(Tail(b), acc)
    ELSE DigitsValue(Tail(b), 10 * acc + DigitVal(Head(b)))

\* int(s), where int_ok(s)
int(s) ==
    LET t == strip(s)
        v == DigitsValue(Unsigned(t), 0)
    IN  IF t[1] = "-" THEN 0 - v ELSE v

RECURSIVE NatToStr(_)
NatToStr(n) ==
    IF n < 10 THEN <<Digits[n + 1]>> ELSE NatToStr(n \div 10) \o <<Digits[(n % 10) + 1]>>

\* str(n) for an int
int_to_str(n) == IF n < 0 THEN <<"-">> \o NatToStr(0 - n) ELSE NatToStr(n)

\* any(record): some field is a non-empty string
any(record) == \E i \in 1..Len(record) : record[i] # <<>>

\* ttk._convert_stringval, applied by Treeview.item(...)['values'] to every
\* value it returns: text that int() accepts comes back as an int.
convert_stringval(value) ==
    IF int_ok(value) THEN [typ |-> "int", val |-> int(value)]
    ELSE [typ |-> "str", val |-> value]

PyEqAsTextMutant(text, v) ==
    text = (IF v.typ = "int" THEN int_to_str(v.val) ELSE v.val)

\* record[0] == v  for a str record[0] and a value read from the tree
\* (a str never equals an int)
PyEq(text, v) == v.typ = "str" /\ v.val = text

\* str(v) of a value read from the tree, as Entry.insert stores it
to_str(v) == IF v.typ = "int" THEN int_to_str(v.val) ELSE v.val

----------------------------------------------------------------------------
(* Declared data                                                           *)

\* self.headers
headers ==
    << <<"P","a","t","i","e","n","t"," ","I","D">>, <<"N","a","m","e">>, <<"A","g","e">>, <<"G","e","n","d","e","r">>, <<"C","o","n","t","a","c","t"," ","N","u","m","b","e","r">>,
       <<"A","d","d","r","e","s","s">>, <<"A","d","m","i","s","s","i","o","n"," ","D","a","t","e">>, <<"D","i","s","e","a","s","e">>, <<"D","o","c","t","o","r"," ","A","s","s","i","g","n","e","d">>,
       <<"R","o","o","m"," ","N","u","m","b","e","r">> >>

\* create_input_section's `fields`: the label of each entry and the key it
\* is stored under in self.input_fields, in the order of the ten columns.
fields ==
    << [label_text |-> <<"P","a","t","i","e","n","t"," ","I","D",":">>,      field_name |-> <<"p","a","t","i","e","n","t","_","i","d">>],
       [label_text |-> <<"N","a","m","e",":">>,            field_name |-> <<"n","a","m","e">>],
       [label_text |-> <<"A","g","e",":">>,             field_name |-> <<"a","g","e">>],
       [label_text |-> <<"G","e","n","d","e","r",":">>,          field_name |-> <<"g","e","n","d","e","r">>],
       [label_text |-> <<"C","o","n","t","a","c","t"," ","N","u","m","b","e","r",":">>,  field_name |-> <<"c","o","n","t","a","c","t">>],
       [label_text |-> <<"A","d","d","r","e","s","s",":">>,         field_name |-> <<"a","d","d","r","e","s","s">>],
       [label_text |-> <<"A","d","m","i","s","s","i","o","n"," ","D","a","t","e",":">>,  field_name |-> <<"a","d","m","i","s","s","i","o","n","_","d","a","t","e">>],
       [label_text |-> <<"D","i","s","e","a","s","e",":">>,         field_name |-> <<"d","i","s","e","a","s","e">>],
       [label_text |-> <<"D","o","c","t","o","r"," ","A","s","s","i","g","n","e","d",":">>, field_name |-> <<"d","o","c","t","o","r">>],
       [label_text |-> <<"R","o","o","m"," ","N","u","m","b","e","r",":">>,     field_name |-> <<"r","o","o","m">>] >>

\* header.lower().replace(" ", "_") for each header
header_field_name == [h \in 1..Len(headers) |-> replace(lower(headers[h]), " ", "_")]

\* the keys of self.input_fields
FieldNames == {fields[i].field_name : i \in 1..Len(fields)}

\* datetime.now().strftime("%Y-%m-%d"), the same day throughout
Today == <<"2","0","2","6","-","1","1","-","0","3">>

\* What the user has typed into the ten entries, given in the order of
\* `fields`.
Typed(v) ==
    [k \in FieldNames |-> v[CHOOSE i \in 1..Len(fields) : fields[i].field_name = k]]

\* The entry contents the user may type before pressing a button.
Inputs ==
    { Typed(<< <<"P","1">>,   <<"A","l">>,         <<"3","0">>,  <<"F">>, <<>>,   <<>>, Today, <<>>,    <<>>,   <<>>  >>),
      Typed(<< <<"P","2">>,   <<"B","o","b">>,        <<"1","5","0">>, <<"M">>, <<"5","5">>, <<>>, Today, <<"F","l","u">>, <<"D","r">>, <<"9">> >>),
      Typed(<< <<"7">>,    <<"J","o","h","n"," ","S","M","I","T","H">>, <<"0">>,   <<>>,  <<>>,   <<>>, Today, <<"f","l","u">>, <<>>,   <<>>  >>),
      Typed(<< <<" ","P","1"," ">>, <<"A","l"," ">>,        <<" ","3","0">>, <<"F">>, <<>>,   <<>>, Today, <<>>,    <<>>,   <<>>  >>),
      Typed(<< <<"P","1">>,   <<"Z","e","d">>,        <<"a","b","c">>, <<>>,  <<>>,   <<>>, Today, <<>>,    <<>>,   <<>>  >>),
      Typed(<< <<" ">>,    <<"A","l">>,         <<"3","0">>,  <<>>,  <<>>,   <<>>, Today, <<>>,    <<>>,   <<>>  >>),
      Typed(<< <<"P","3">>,   <<>>,           <<"3","0">>,  <<>>,  <<>>,   <<>>, Today, <<>>,    <<>>,   <<>>  >>),
      Typed(<< <<"P","3">>,   <<"A","l">>,         <<" ">>,   <<>>,  <<>>,   <<>>, Today, <<>>,    <<>>,   <<>>  >>),
      Typed(<< <<"P","3">>,   <<"A","l">>,         <<"1","5","1">>, <<>>,  <<>>,   <<>>, Today, <<>>,    <<>>,   <<>>  >>),
      Typed(<< <<"P","3">>,   <<"A","l">>,         <<"-","1">>,  <<>>,  <<>>,   <<>>, Today, <<>>,    <<>>,   <<>>  >>) }

\* What the user may have in the "search by" combo box (its four offered
\* values are declared headers; the box also takes typed text) and in the
\* search entry when pressing Search.
SearchInputs ==
    { << <<"N","a","m","e">>,    <<"s","m","i","t","h">> >>,
      << <<"N","a","m","e">>,    <<" ">>     >>,
      << <<"N","a","m","e">>,    <<"a">>     >>,
      << <<"D","i","s","e","a","s","e">>, <<"F","L","U"," ">>  >>,
      << <<"n","a","m","e">>,    <<"s","m","i","t","h">> >>,
      << <<"n","a","m","e">>,    <<" ">>     >> }

----------------------------------------------------------------------------
(* State                                                                   *)

VARIABLES
    window,        \* "none" before __init__ and after the window is closed, else "open"
    csv_exists,    \* os.path.exists(self.csv_file)
    csv_file,      \* the rows of the backing file, header first
    input_fields,  \* the text of the ten entries, by key
    tree,          \* the rows shown in the Treeview, in order
    selection,     \* index in `tree` of the selected row, 0 for none
    messagebox,    \* the dialog the last handler ended on
    last           \* the handler that ran last, with what the user gave it

vars == <<window, csv_exists, csv_file, input_fields, tree, selection, messagebox, last>>

NoDialog == [kind |-> "none", title |-> "", message |-> ""]

showerror(title, message) == [kind |-> "showerror", title |-> title, message |-> message]

showwarning(title, message) == [kind |-> "showwarning", title |-> title, message |-> message]

showinfo(title, message) == [kind |-> "showinfo", title |-> title, message |-> message]

Event(op, answer, field, term) ==
    [op |-> op, answer |-> answer, search_by |-> field, search_entry |-> term]

Handled(op) == Event(op, FALSE, <<>>, <<>>)

\* every entry emptied, then today's date inserted into admission_date
ClearedFields ==
    [k \in FieldNames |-> IF k = <<"a","d","m","i","s","s","i","o","n","_","d","a","t","e">> THEN Today ELSE <<>>]

LoadedRowsKeepHeaderMutant(rows) == SelectSeq(rows, any)

\* the rows load_records puts in the tree: all but the header, minus the
\* rows with no non-empty field
LoadedRows(rows) == SelectSeq(Tail(rows), any)

\* load_records' read raises (no file, or no header line to skip)
LoadFails(exists, rows) == ~exists \/ rows = <<>>

----------------------------------------------------------------------------
(* Helpers of the handlers                                                 *)

ValidateInputBoundaryMutant(entries) ==
    IF strip(entries[<<"p","a","t","i","e","n","t","_","i","d">>]) = <<>> THEN [is_valid |-> FALSE, message |-> "Patient Id is required"]
    ELSE IF strip(entries[<<"n","a","m","e">>]) = <<>> THEN [is_valid |-> FALSE, message |-> "Name is required"]
    ELSE IF strip(entries[<<"a","g","e">>]) = <<>> THEN [is_valid |-> FALSE, message |-> "Age is required"]
    ELSE IF ~int_ok(strip(entries[<<"a","g","e">>])) THEN [is_valid |-> FALSE, message |-> "Age must be a valid number"]
    ELSE IF int(strip(entries[<<"a","g","e">>])) < 0 \/ int(strip(entries[<<"a","g","e">>])) >= 150
         THEN [is_valid |-> FALSE, message |-> "Age must be between 0 and 150"]
    ELSE [is_valid |-> TRUE, message |-> "Valid"]

\* validate_input: (is_valid, error_message)
validate_input(entries) ==
    IF strip(entries[<<"p","a","t","i","e","n","t","_","i","d">>]) = <<>> THEN [is_valid |-> FALSE, message |-> "Patient Id is required"]
    ELSE IF strip(entries[<<"n","a","m","e">>]) = <<>> THEN [is_valid |-> FALSE, message |-> "Name is required"]
    ELSE IF strip(entries[<<"a","g","e">>]) = <<>> THEN [is_valid |-> FALSE, message |-> "Age is required"]
    ELSE IF ~int_ok(strip(entries[<<"a","g","e">>])) THEN [is_valid |-> FALSE, message |-> "Age must be a valid number"]
    ELSE IF int(strip(entries[<<"a","g","e">>])) < 0 \/ int(strip(entries[<<"a","g","e">>])) > 150
         THEN [is_valid |-> FALSE, message |-> "Age must be between 0 and 150"]
    ELSE [is_valid |-> TRUE, message |-> "Valid"]

\* The ten values add_record and update_record collect, one per header:
\* the header lower-cased with spaces turned to underscores is looked up in
\* self.input_fields; a header whose key is not there gives "".
record_from_fields(entries) ==
    [h \in 1..Len(headers) |->
        LET field_name == header_field_name[h]
        IN  IF field_name \in DOMAIN entries THEN strip(entries[field_name]) ELSE <<>>]

CheckDuplicateNeverMutant(exists, rows, patient_id) == FALSE

\* check_duplicate_id: some row after the header is non-empty and starts
\* with patient_id; any exception while reading gives False
check_duplicate_id(exists, rows, patient_id) ==
    /\ ~LoadFails(exists, rows)
    /\ \E i \in 2..Len(rows) : rows[i] # <<>> /\ rows[i][1] = patient_id

\* Treeview.item(row)['values']
item_values(row) == [i \in 1..Len(row) |-> convert_stringval(row[i])]

\* Indices (in the file) of the data rows whose first field equals the
\* value read from the tree
Matching(rows, id) == {i \in 2..Len(rows) : PyEq(rows[i][1], id)}

Min(S) == CHOOSE i \in S : \A j \in S : i <= j

UpdateEveryMatchMutant(rows, id, updated_record) ==
    [i \in 1..Len(rows) |-> IF i \in Matching(rows, id) THEN updated_record ELSE rows[i]]

\* update_record's loop: the first matching row replaced, the others kept
UpdatedRows(rows, id, updated_record) ==
    [rows EXCEPT ![Min(Matching(rows, id))] = updated_record]

DeleteFirstMatchMutant(rows, id) ==
    IF Matching(rows, id) = {} THEN rows
    ELSE SubSeq(rows, 1, Min(Matching(rows, id)) - 1)
           \o SubSeq(rows, Min(Matching(rows, id)) + 1, Len(rows))

\* delete_record's rewrite: the header, then the rows not matching
RowsAfterDelete(rows, id) ==
    <<rows[1]>> \o SelectSeq(Tail(rows), LAMBDA record : ~PyEq(record[1], id))

ColumnIndexFallsBackMutant(hdr, search_field) ==
    IF \E i \in 1..Len(hdr) : hdr[i] = search_field
    THEN Min({i \in 1..Len(hdr) : hdr[i] = search_field})
    ELSE 1

\* headers.index(search_field), 1-based; 0 stands for its ValueError
column_index(hdr, search_field) ==
    IF \E i \in 1..Len(hdr) : hdr[i] = search_field
    THEN Min({i \in 1..Len(hdr) : hdr[i] = search_field})
    ELSE 0

SearchCaseSensitiveMutant(rows, col_index, search_term) ==
    SelectSeq(Tail(rows), LAMBDA record :
        col_index <= Len(record) /\ contains(record[col_index], search_term))

\* search_records' loop: the rows after the header that have the column and
\* whose lower-cased value in it contains the (lower-cased) term
FoundRows(rows, col_index, search_term) ==
    SelectSeq(Tail(rows), LAMBDA record :
        col_index <= Len(record) /\ contains(lower(record[col_index]), search_term))

\* on_record_select's loop: each header whose key is in self.input_fields
\* gets str() of the row's value; the other entries keep their text
Populated(entries, values) ==
    [k \in FieldNames |->
        IF \E h \in 1..Len(headers) : h <= Len(values) /\ header_field_name[h] = k
        THEN to_str(values[CHOOSE h \in 1..Len(headers) :
                              h <= Len(values) /\ header_field_name[h] = k])
        ELSE entries[k]]

----------------------------------------------------------------------------
(* Handlers                                                                *)

NoFields == [k \in FieldNames |-> <<>>]

Init ==
    /\ window = "none"
    /\ csv_exists = FALSE
    /\ csv_file = <<>>
    /\ input_fields = NoFields
    /\ tree = <<>>
    /\ selection = 0
    /\ messagebox = NoDialog
    /\ last = Handled("none")

InitializeAlwaysWritesMutant(exists, rows) == <<headers>>

\* initialize_csv: the rows of the backing file once it has run
initialize_csv(exists, rows) == IF ~exists THEN <<headers>> ELSE rows

\* __init__: initialize_csv, create_ui, load_records
PatientRecordSystem ==
    /\ window = "none"
    /\ window' = "open"
    /\ csv_exists' = TRUE
    /\ csv_file' = initialize_csv(csv_exists, csv_file)
    /\ input_fields' = ClearedFields
    /\ tree' = LoadedRows(csv_file')
    /\ selection' = 0
    /\ messagebox' = NoDialog
    /\ last' = Handled("__init__")

\* run: mainloop returns when the user closes the window; the widgets and
\* what they held are gone, the backing file stays
run ==
    /\ window = "open"
    /\ window' = "none"
    /\ input_fields' = NoFields
    /\ tree' = <<>>
    /\ selection' = 0
    /\ messagebox' = NoDialog
    /\ last' = Handled("run")
    /\ UNCHANGED <<csv_exists, csv_file>>

\* The user types `typed` into the entries.
EditFields(typed) ==
    /\ window = "open"
    /\ input_fields' = typed
    /\ messagebox' = NoDialog
    /\ last' = Handled("edit")
    /\ UNCHANGED <<window, csv_exists, csv_file, tree, selection>>

\* on_record_select, on the user selecting row i of the tree
on_record_select(i) ==
    /\ window = "open"
    /\ i \in 1..Len(tree)
    /\ selection' = i
    /\ input_fields' = Populated(input_fields, item_values(tree[i]))
    /\ messagebox' = NoDialog
    /\ last' = Handled("on_record_select")
    /\ UNCHANGED <<window, csv_exists, csv_file, tree>>

\* load_records (Refresh, Show All)
load_records ==
    /\ window = "open"
    /\ selection' = 0
    /\ IF LoadFails(csv_exists, csv_file)
       THEN /\ tree' = <<>>
            /\ messagebox' = showerror("Error", "Failed to load records")
       ELSE /\ tree' = LoadedRows(csv_file)
            /\ messagebox' = NoDialog
    /\ last' = Handled("load_records")
    /\ UNCHANGED <<window, csv_exists, csv_file, input_fields>>

\* clear_fields
clear_fields ==
    /\ window = "open"
    /\ input_fields' = ClearedFields
    /\ messagebox' = NoDialog
    /\ last' = Handled("clear_fields")
    /\ UNCHANGED <<window, csv_exists, csv_file, tree, selection>>

AppendTruncatesMutant(rows, new_record) == <<new_record>>

\* open(self.csv_file, 'a') and writer.writerow(new_record): the rows of the
\* file afterwards
AppendedRows(rows, new_record) == Append(rows, new_record)

\* add_record
add_record ==
    /\ window = "open"
    /\ last' = Handled("add_record")
    /\ LET v == validate_input(input_fields)
           new_record == record_from_fields(input_fields)
       IN  IF ~v.is_valid
           THEN /\ messagebox' = showerror("Validation Error", v.message)
                /\ UNCHANGED <<window, csv_exists, csv_file, input_fields, tree, selection>>
           ELSE IF check_duplicate_id(csv_exists, csv_file, new_record[1])
           THEN /\ messagebox' = showerror("Error", "Patient ID already exists!")
                /\ UNCHANGED <<window, csv_exists, csv_file, input_fields, tree, selection>>
           ELSE /\ Len(csv_file) - 1 < MaxRecords
                /\ csv_file' = AppendedRows(csv_file, new_record)
                /\ input_fields' = ClearedFields
                /\ tree' = LoadedRows(csv_file')
                /\ selection' = 0
                /\ messagebox' = showinfo("Success", "Patient record added successfully!")
                /\ UNCHANGED <<window, csv_exists>>

\* update_record
update_record ==
    /\ window = "open"
    /\ last' = Handled("update_record")
    /\ IF selection = 0
       THEN /\ messagebox' = showwarning("Warning", "Please select a record to update")
            /\ UNCHANGED <<window, csv_exists, csv_file, input_fields, tree, selection>>
       ELSE LET v == validate_input(input_fields)
                old_values == item_values(tree[selection])
                updated_record == record_from_fields(input_fields)
            IN  IF ~v.is_valid
                THEN /\ messagebox' = showerror("Validation Error", v.message)
                     /\ UNCHANGED <<window, csv_exists, csv_file, input_fields, tree, selection>>
                ELSE IF Matching(csv_file, old_values[1]) # {}
                THEN /\ csv_file' = UpdatedRows(csv_file, old_values[1], updated_record)
                     /\ tree' = LoadedRows(csv_file')
                     /\ selection' = 0
                     /\ messagebox' = showinfo("Success", "Record updated successfully!")
                     /\ UNCHANGED <<window, csv_exists, input_fields>>
                ELSE /\ messagebox' = showerror("Error", "Record not found in database")
                     /\ UNCHANGED <<window, csv_exists, csv_file, input_fields, tree, selection>>

\* delete_record; `answer` is what the user answers to "Are you sure ...?"
delete_record(answer) ==
    /\ window = "open"
    /\ IF selection = 0
       THEN /\ answer = FALSE
            /\ last' = Handled("delete_record")
            /\ messagebox' = showwarning("Warning", "Please select a record to delete")
            /\ UNCHANGED <<window, csv_exists, csv_file, input_fields, tree, selection>>
       ELSE /\ last' = Event("delete_record", answer, <<>>, <<>>)
            /\ IF ~answer
               THEN /\ messagebox' = NoDialog
                    /\ UNCHANGED <<window, csv_exists, csv_file, input_fields, tree, selection>>
               ELSE LET patient_id == item_values(tree[selection])[1]
                    IN  /\ csv_file' = RowsAfterDelete(csv_file, patient_id)
                        /\ tree' = LoadedRows(csv_file')
                        /\ selection' = 0
                        /\ messagebox' = showinfo("Success", "Record deleted successfully!")
                        /\ UNCHANGED <<window, csv_exists, input_fields>>

\* search_records, with the combo box holding `search_by` and the search
\* entry holding `search_entry`
search_records(search_by, search_entry) ==
    /\ window = "open"
    /\ last' = Event("search_records", FALSE, search_by, search_entry)
    /\ selection' = 0
    /\ LET search_term == lower(strip(search_entry))
       IN  IF search_term = <<>>
           THEN IF LoadFails(csv_exists, csv_file)
                THEN /\ tree' = <<>>
                     /\ messagebox' = showerror("Error", "Failed to load records")
                ELSE /\ tree' = LoadedRows(csv_file)
                     /\ messagebox' = NoDialog
           ELSE IF LoadFails(csv_exists, csv_file) \/ column_index(csv_file[1], search_by) = 0
                THEN /\ tree' = <<>>
                     /\ messagebox' = showerror("Error", "Search failed")
                ELSE /\ tree' = FoundRows(csv_file, column_index(csv_file[1], search_by), search_term)
                     /\ messagebox' = NoDialog
    /\ UNCHANGED <<window, csv_exists, csv_file, input_fields>>

Next ==
    \/ PatientRecordSystem
    \/ run
    \/ \E typed \in Inputs : EditFields(typed)
    \/ \E i \in 1..Len(tree) : on_record_select(i)
    \/ load_records
    \/ clear_fields
    \/ add_record
    \/ update_record
    \/ \E answer \in BOOLEAN : delete_record(answer)
    \/ \E s \in SearchInputs : search_records(s[1], s[2])

Spec == Init /\ [][Next]_vars

----------------------------------------------------------------------------
(* The store's contract, in the terms of the handlers above.               *)
(* insert(record) is add_record on the entries holding the record;         *)
(* update(id, R) is update_record with a row selected, id being the first  *)
(* value the tree returns for it and R the ten values collected from the   *)
(* entries; delete(id) is delete_record with a row selected and the        *)
(* confirmation answered yes; list_all() is what load_records shows.       *)

Blank(text) == strip(text) = <<>>

\* The entries pass validation: Patient ID, Name and Age are not blank and
\* Age is an integer in [0, 150].
RecordIsValid(entries) ==
    /\ ~Blank(entries[<<"p","a","t","i","e","n","t","_","i","d">>])
    /\ ~Blank(entries[<<"n","a","m","e">>])
    /\ ~Blank(entries[<<"a","g","e">>])
    /\ int_ok(entries[<<"a","g","e">>])
    /\ int(entries[<<"a","g","e">>]) \in 0..150

\* The record the user entered, column by column (the entry under each
\* column's label), surrounding whitespace aside.
EnteredRow(entries) == [i \in 1..Len(fields) |-> strip(entries[fields[i].field_name])]

\* Some data row of the file has this Patient ID.
IdStored(rows, patient_id) == \E i \in 2..Len(rows) : rows[i][1] = patient_id

\* The id an update or a delete is keyed on: the first value of the
\* selected row as the tree returns it.
SelectedId == item_values(tree[selection])[1]

\* A stored Patient ID equals the id of an update or delete.
SameId(text, id) == id.typ = "str" /\ id.val = text

RowsWithId(rows, id) == {i \in 2..Len(rows) : SameId(rows[i][1], id)}

FirstRowWithId(rows, id) ==
    CHOOSE i \in RowsWithId(rows, id) : \A j \in RowsWithId(rows, id) : i <= j

RECURSIVE Without(_, _)
Without(rows, id) ==
    IF rows = <<>> THEN <<>>
    ELSE IF SameId(Head(rows)[1], id) THEN Without(Tail(rows), id)
    ELSE <<Head(rows)>> \o Without(Tail(rows), id)

FileUnchanged == csv_file' = csv_file /\ csv_exists' = csv_exists

\* C1: for every record that passes validation and whose patient_id is not
\* yet stored, add_record followed by list_all() yields exactly one record
\* with that patient_id, equal to the input on all ten columns.
C1_RoundTrip ==
    [][ ( /\ last'.op = "add_record"
          /\ RecordIsValid(input_fields)
          /\ ~IdStored(csv_file, strip(input_fields[<<"p","a","t","i","e","n","t","_","i","d">>])) )
        => LET id == strip(input_fields[<<"p","a","t","i","e","n","t","_","i","d">>])
           IN  /\ Cardinality({i \in 1..Len(tree') : tree'[i][1] = id}) = 1
               /\ \A i \in 1..Len(tree') :
                     tree'[i][1] = id => tree'[i] = EnteredRow(input_fields) ]_vars

\* C2: no two data rows of the backing file have the same Patient ID, after
\* any sequence of add_record, update_record and delete_record.
C2_UniquePatientIds ==
    \A i, j \in 2..Len(csv_file) : i # j => csv_file[i][1] # csv_file[j][1]

\* C3 as stated: add_record of a record whose patient_id is already stored
\* fails with the duplicate-key error and leaves the file unchanged.
C3_DuplicateInsertGivesDuplicateError ==
    [][ ( /\ last'.op = "add_record"
          /\ IdStored(csv_file, strip(input_fields[<<"p","a","t","i","e","n","t","_","i","d">>])) )
        => ( /\ messagebox' = showerror("Error", "Patient ID already exists!")
             /\ FileUnchanged ) ]_vars

\* C3 amended: add_record of a record that passes validation and whose
\* patient_id is already stored fails with the duplicate-key error and
\* leaves the file unchanged.
C3_ValidDuplicateInsertRejected ==
    [][ ( /\ last'.op = "add_record"
          /\ RecordIsValid(input_fields)
          /\ IdStored(csv_file, strip(input_fields[<<"p","a","t","i","e","n","t","_","i","d">>])) )
        => ( /\ messagebox' = showerror("Error", "Patient ID already exists!")
             /\ FileUnchanged ) ]_vars

\* a duplicate insert was just rejected
C3_Witness ==
    /\ last.op = "add_record"
    /\ messagebox = showerror("Error", "Patient ID already exists!")
    /\ IdStored(csv_file, <<"P","1">>)

\* C4: add_record is rejected with a validation error exactly when
\* patient_id, name or age is blank or age is not an integer in [0, 150],
\* and a rejected insert writes nothing to the file.
C4_ValidationBoundary ==
    [][ last'.op = "add_record"
        => ( /\ (messagebox'.title = "Validation Error") <=> ~RecordIsValid(input_fields)
             /\ ~RecordIsValid(input_fields) => FileUnchanged ) ]_vars

\* age 151 was just rejected, in a store that had accepted age 150 and age 0
C4_Witness ==
    /\ last.op = "add_record"
    /\ messagebox = showerror("Validation Error", "Age must be between 0 and 150")
    /\ input_fields[<<"a","g","e">>] = <<"1","5","1">>
    /\ \E i \in 2..Len(csv_file) : csv_file[i][3] = <<"1","5","0">>
    /\ \E i \in 2..Len(csv_file) : csv_file[i][3] = <<"0">>

IsDeclaredColumn(field) == \E c \in 1..Len(headers) : headers[c] = field

ColumnOf(field) == CHOOSE c \in 1..Len(headers) : headers[c] = field

\* The stored records whose value in column `field` contains `term`, both
\* compared case-insensitively, in file order.
RecordsContaining(rows, field, term) ==
    SelectSeq(Tail(rows), LAMBDA record :
        contains(lower(record[ColumnOf(field)]), lower(term)))

\* C8 as stated: search(field, term) with a non-empty term returns exactly
\* the stored records whose value in column `field` contains `term`
\* case-insensitively, in file order, and leaves the store unchanged.
C8_SearchMatchesTermAsGiven ==
    [][ ( /\ last'.op = "search_records"
          /\ last'.search_entry # <<>>
          /\ IsDeclaredColumn(last'.search_by) )
        => ( /\ tree' = RecordsContaining(csv_file, last'.search_by, last'.search_entry)
             /\ FileUnchanged ) ]_vars

\* C8 amended: search(field, term) with a term that is non-empty after
\* trimming whitespace returns exactly the stored records whose value in
\* column `field` contains the trimmed term case-insensitively, in file
\* order, and leaves the store unchanged.
C8_SearchMatchesTrimmedTerm ==
    [][ ( /\ last'.op = "search_records"
          /\ ~Blank(last'.search_entry)
          /\ IsDeclaredColumn(last'.search_by) )
        => ( /\ tree' = RecordsContaining(csv_file, last'.search_by, strip(last'.search_entry))
             /\ FileUnchanged ) ]_vars

\* search("Name", "smith") has just returned "John SMITH" and left another
\* stored record out
C8_Witness ==
    /\ last.op = "search_records"
    /\ last.search_by = <<"N","a","m","e">>
    /\ last.search_entry = <<"s","m","i","t","h">>
    /\ Len(tree) = 1
    /\ tree[1][2] = <<"J","o","h","n"," ","S","M","I","T","H">>
    /\ Len(csv_file) > 2

\* C9 as stated: search(field, term) with a non-empty term and a field that
\* is not a declared column name fails with the invalid-field error and
\* returns no records.
C9_UndeclaredFieldFails ==
    [][ ( /\ last'.op = "search_records"
          /\ last'.search_entry # <<>>
          /\ ~IsDeclaredColumn(last'.search_by) )
        => ( /\ messagebox' = showerror("Error", "Search failed")
             /\ tree' = <<>> ) ]_vars

\* C9 amended: search(field, term) with a term that is non-empty after
\* trimming whitespace and a field that is not a declared column name
\* fails with the invalid-field error and returns no records.
C9_UndeclaredFieldFailsForTrimmedTerm ==
    [][ ( /\ last'.op = "search_records"
          /\ ~Blank(last'.search_entry)
          /\ ~IsDeclaredColumn(last'.search_by) )
        => ( /\ messagebox' = showerror("Error", "Search failed")
             /\ tree' = <<>> ) ]_vars

\* a search on the undeclared field "name" has just failed although a
\* stored Name contains the term
C9_Witness ==
    /\ last.op = "search_records"
    /\ last.search_by = <<"n","a","m","e">>
    /\ messagebox = showerror("Error", "Search failed")
    /\ tree = <<>>
    /\ \E i \in 2..Len(csv_file) : contains(lower(csv_file[i][2]), last.search_entry)

\* C10: initialize() on an absent file creates it holding only the header
\* row, and list_all() is then empty; initialize() on a present file
\* raises no error and leaves its content unchanged.
C10_InitializeIdempotent ==
    [][ last'.op = "__init__"
        => ( /\ csv_exists'
             /\ messagebox' = NoDialog
             /\ IF csv_exists
                THEN csv_file' = csv_file
                ELSE csv_file' = <<headers>> /\ tree' = <<>> ) ]_vars

\* the program has just been started again on a file that holds records
C10_Witness ==
    /\ last.op = "__init__"
    /\ Len(csv_file) > 1
    /\ tree = Tail(csv_file)

\* C11: from initialize() on an absent file on, the first row of the backing
\* file is the declared ten-column header, every later row has exactly ten
\* fields in the declared column order (the validated Patient ID, Name and
\* Age sit in columns 1, 2 and 3), and list_all(), exists() and search()
\* never return or match the header row as a record.
C11_FileShape ==
    csv_exists =>
        /\ Len(csv_file) >= 1
        /\ csv_file[1] = headers
        /\ \A i \in 2..Len(csv_file) :
              /\ Len(csv_file[i]) = Len(headers)
              /\ ~Blank(csv_file[i][1])
              /\ ~Blank(csv_file[i][2])
              /\ int_ok(csv_file[i][3]) /\ int(csv_file[i][3]) \in 0..150
        /\ \A i \in 1..Len(tree) : tree[i] # headers
        /\ \A i \in 1..Len(tree) : \E j \in 2..Len(csv_file) : tree[i] = csv_file[j]
        /\ \A id \in {headers[1], <<"P","1">>, <<"P","2">>, <<"7">>} :
              check_duplicate_id(csv_exists, csv_file, id) <=> IdStored(csv_file, id)

\* search("Name", "a"), a term the header's own "Name" contains, has just
\* returned stored records only, from a file holding three records
C11_Witness ==
    /\ last.op = "search_records"
    /\ last.search_by = <<"N","a","m","e">>
    /\ last.search_entry = <<"a">>
    /\ Len(tree) >= 1
    /\ Len(csv_file) = 4
    /\ contains(lower(csv_file[1][2]), last.search_entry)

\* C12: a successful insert appends the new record as the last row of the
\* backing file: the row count grows by exactly one, the final row is the
\* record add_record collected (it carries the inserted patient_id), and
\* the header and all previously stored rows keep their content and order.
C12_InsertAppendsLastRow ==
    [][ ( /\ last'.op = "add_record"
          /\ messagebox' = showinfo("Success", "Patient record added successfully!") )
        => ( /\ RecordIsValid(input_fields)
             /\ ~IdStored(csv_file, strip(input_fields[<<"p","a","t","i","e","n","t","_","i","d">>]))
             /\ Len(csv_file') = Len(csv_file) + 1
             /\ csv_file'[Len(csv_file')] = record_from_fields(input_fields)
             /\ csv_file'[Len(csv_file')][1] = strip(input_fields[<<"p","a","t","i","e","n","t","_","i","d">>])
             /\ \A i \in 1..Len(csv_file) : csv_file'[i] = csv_file[i] ) ]_vars

\* an insert has just succeeded on a store that already held two records:
\* the file has three data rows, the last of them with a new id
C12_Witness ==
    /\ last.op = "add_record"
    /\ messagebox = showinfo("Success", "Patient record added successfully!")
    /\ Len(csv_file) = 4
    /\ \A i \in 2..3 : csv_file[i][1] # csv_file[4][1]

=============================================================================
